---- MODULE Spec2Model ----
(***************************************************************************)
(* Device handlers of ncclient: the Junos handler's raw-dispatch hook      *)
(* (handle_raw_dispatch), its get-schema namespace fix                     *)
(* (fix_get_schema_reply), its parser selection (get_xml_parser) and the   *)
(* remaining hooks of the Junos and H3C handlers.                          *)
(*                                                                         *)
(* A raw reply is a sequence of markup tokens (strings).  Every token is a *)
(* whole tag or a whole piece of character data, so a pattern of the       *)
(* code's regular expressions matches a token or nothing: no match spans   *)
(* a token boundary.                                                       *)
(***************************************************************************)
EXTENDS Integers, Sequences, FiniteSets, TLC

VARIABLES raw, result,
          root, root0, warnings, fixCalls,
          device_params, listeners, channel, channel_id, transport,
          parsers, hook, ret

rawVars     == <<raw, result>>
fixVars     == <<root, root0, warnings, fixCalls>>
sessionVars == <<listeners, channel, channel_id, transport>>
handlerVars == <<device_params, parsers, hook, ret>>
vars        == <<raw, result, root, root0, warnings, fixCalls,
                 device_params, listeners, channel, channel_id, transport,
                 parsers, hook, ret>>

(***************************************************************************)
(* Bounds of the model.                                                    *)
(***************************************************************************)
MaxPieces      == 4   \* pieces a raw reply is put together from
MaxChildren    == 2   \* children of the root of a get-schema reply
MaxFixCalls    == 2   \* calls of fix_get_schema_reply on one reply
MaxParserCalls == 3   \* calls of get_xml_parser on one session
MaxChannels    == 3   \* channels opened on one transport

(***************************************************************************)
(* Namespaces.  None is Python's None: the element has no namespace.       *)
(***************************************************************************)
BASE_NS_1_0           == "urn:ietf:params:xml:ns:netconf:base:1.0"
NETCONF_MONITORING_NS == "urn:ietf:params:xml:ns:yang:ietf-netconf-monitoring"
JUNOS_NS              == "urn:junos"
None                  == "None"

(***************************************************************************)
(* Markup tokens: kind, element name and declared namespace of each.       *)
(***************************************************************************)
RE_OPEN     == "<routing-engine>"
RE_CLOSE    == "</routing-engine>"
OK          == "<ok/>"
RR_OPEN     == "<rpc-reply>"
RR_CLOSE    == "</rpc-reply>"
HELLO_CLOSE == "</hello>"
ERR_OPEN    == "<rpc-error>"
ERR_CLOSE   == "</rpc-error>"
ERR_TAG     == "<error-tag/>"
BAD_ELEM    == "<bad-element xmlns='urn:junos'/>"
NL          == "\n"

TokKind(t) ==
    CASE t \in {RE_OPEN, RR_OPEN, ERR_OPEN}                 -> "open"
      [] t \in {RE_CLOSE, RR_CLOSE, ERR_CLOSE, HELLO_CLOSE} -> "close"
      [] t \in {OK, ERR_TAG, BAD_ELEM}                      -> "empty"
      [] OTHER                                              -> "text"

TokName(t) ==
    CASE t \in {RE_OPEN, RE_CLOSE}   -> "routing-engine"
      [] t \in {RR_OPEN, RR_CLOSE}   -> "rpc-reply"
      [] t \in {ERR_OPEN, ERR_CLOSE} -> "rpc-error"
      [] t = HELLO_CLOSE             -> "hello"
      [] t = OK                      -> "ok"
      [] t = ERR_TAG                 -> "error-tag"
      [] t = BAD_ELEM                -> "bad-element"
      [] OTHER                       -> "#text"

TokNs(t) == IF t = BAD_ELEM THEN JUNOS_NS ELSE None

(***************************************************************************)
(* The raw replies of the model: up to MaxPieces pieces in any order.      *)
(***************************************************************************)
Pieces ==
    { <<RE_OPEN>>, <<RE_CLOSE>>, <<OK>>,
      <<RR_OPEN>>, <<RR_CLOSE>>, <<HELLO_CLOSE>>,
      <<ERR_OPEN>>, <<ERR_CLOSE>>,
      <<RR_OPEN, RR_CLOSE>>,
      <<ERR_OPEN, ERR_TAG, ERR_CLOSE>>,
      <<ERR_OPEN, BAD_ELEM, ERR_CLOSE>> }

RECURSIVE RawReplies(_)
RawReplies(n) ==
    IF n = 0 THEN { <<>> }
    ELSE LET shorter == RawReplies(n - 1)
         IN  shorter \cup { s \o p : s \in shorter, p \in Pieces }

(***************************************************************************)
(* handle_raw_dispatch and the library calls it makes.                     *)
(***************************************************************************)
\* 'routing-engine' in raw
ContainsRoutingEngine(s) ==
    \E i \in 1..Len(s) : s[i] \in {RE_OPEN, RE_CLOSE}

\* re.sub(r'<ok/>', '</routing-engine>\n<ok/>', raw): every occurrence
RECURSIVE SubOk(_)
SubOk(s) ==
    IF s = <<>> THEN <<>>
    ELSE IF Head(s) = OK
         THEN <<RE_CLOSE, NL, OK>> \o SubOk(Tail(s))
         ELSE <<Head(s)>> \o SubOk(Tail(s))

\* re.search(r'<rpc-reply>.*?</rpc-reply>.*</hello>?', raw, re.M | re.S)
SearchEnvelope(s) ==
    \E i, j, k \in 1..Len(s) :
        /\ i < j /\ j < k
        /\ s[i] = RR_OPEN
        /\ s[j] = RR_CLOSE
        /\ s[k] \in {HELLO_CLOSE, "</hello"}

\* index of the first t in s at or after position i, 0 if there is none
RECURSIVE IndexFrom(_, _, _)
IndexFrom(s, t, i) ==
    IF i > Len(s) THEN 0
    ELSE IF s[i] = t THEN i ELSE IndexFrom(s, t, i + 1)

\* re.findall(r'<rpc-error>.*?</rpc-error>', raw, re.M | re.S): the scan
\* takes the leftmost opening tag at or after pos, the first closing tag
\* after it, and goes on after that closing tag
RECURSIVE FindAllErrs(_, _)
FindAllErrs(s, pos) ==
    LET i == IndexFrom(s, ERR_OPEN, pos)
        j == IF i = 0 THEN 0 ELSE IndexFrom(s, ERR_CLOSE, i + 1)
    IN  IF i = 0 \/ j = 0 THEN <<>>
        ELSE <<SubSeq(s, i, j)>> \o FindAllErrs(s, j + 1)

\* whether libxml2 accepts s as a document: one root element, tags nested
RECURSIVE WellFormed(_, _, _)
WellFormed(s, i, stack) ==
    IF i > Len(s) THEN stack = <<>> /\ Len(s) > 0
    ELSE LET t == s[i]
             k == TokKind(t)
             inRoot == stack # <<>>
         IN  CASE k = "open"  -> /\ (i = 1 \/ inRoot)
                                 /\ WellFormed(s, i + 1, Append(stack, TokName(t)))
               [] k = "close" -> /\ inRoot
                                 /\ stack[Len(stack)] = TokName(t)
                                 /\ WellFormed(s, i + 1, SubSeq(stack, 1, Len(stack) - 1))
               [] k = "empty" -> /\ (inRoot \/ Len(s) = 1)
                                 /\ WellFormed(s, i + 1, stack)
               [] OTHER       -> /\ (inRoot \/ t = NL)
                                 /\ WellFormed(s, i + 1, stack)

\* etree.XML(text) of a well-formed text: its nodes in document order
XML(s) ==
    [i \in 1..Len(s) |-> [kind |-> TokKind(s[i]), name |-> TokName(s[i]), ns |-> TokNs(s[i])]]

\* a slip in the stylesheet: the elements are copied as they are
AddNsCopy(nodes) == nodes

\* the add_ns stylesheet: every element is rebuilt with its local name in
\* the base namespace; character data is copied
AddNs(nodes) ==
    [i \in 1..Len(nodes) |->
        IF nodes[i].kind = "text" THEN nodes[i]
        ELSE [nodes[i] EXCEPT !.ns = BASE_NS_1_0]]

RECURSIVE Join(_)
Join(ss) == IF ss = <<>> THEN <<>> ELSE Head(ss) \o Join(Tail(ss))

\* what a call of the hook gives: a str, an RPCError, False, None, or a
\* raised XMLSyntaxError
Returned(k, text, tree, errs) ==
    [kind |-> k, text |-> text, raw |-> tree, errs |-> errs]

NoResult == Returned("-", <<>>, <<>>, <<>>)

\* a slip in the branching: the repaired text is not returned at once but
\* goes on to the error extraction
handle_raw_dispatch_through(s) ==
    LET repaired == IF ContainsRoutingEngine(s) THEN SubOk(s) ELSE s
        errs     == FindAllErrs(repaired, 1)
    IN  IF SearchEnvelope(repaired)
        THEN IF errs # <<>>
             THEN IF \E i \in 1..Len(errs) : ~WellFormed(errs[i], 1, <<>>)
                  THEN Returned("XMLSyntaxError", <<>>, <<>>, <<>>)
                  ELSE Returned("RPCError", <<>>,
                                XML(<<RR_OPEN>> \o Join(errs) \o <<RR_CLOSE>>),
                                [i \in 1..Len(errs) |-> AddNs(XML(errs[i]))])
             ELSE Returned("None", <<>>, <<>>, <<>>)
        ELSE IF ContainsRoutingEngine(s)
        THEN Returned("str", repaired, <<>>, <<>>)
        ELSE Returned("False", <<>>, <<>>, <<>>)

handle_raw_dispatch(s) ==
    IF ContainsRoutingEngine(s)
    THEN Returned("str", SubOk(s), <<>>, <<>>)
    ELSE IF SearchEnvelope(s)
    THEN LET errs == FindAllErrs(s, 1)
         IN  IF errs # <<>>
             THEN IF \E i \in 1..Len(errs) : ~WellFormed(errs[i], 1, <<>>)
                  THEN Returned("XMLSyntaxError", <<>>, <<>>, <<>>)
                  ELSE Returned("RPCError", <<>>,
                                XML(<<RR_OPEN>> \o Join(errs) \o <<RR_CLOSE>>),
                                [i \in 1..Len(errs) |-> AddNs(XML(errs[i]))])
             ELSE Returned("None", <<>>, <<>>, <<>>)
    ELSE Returned("False", <<>>, <<>>, <<>>)

(***************************************************************************)
(* Values the other parts start from while a raw reply is dispatched.      *)
(***************************************************************************)
NoRoot == [tag |-> "-", ns |-> None, children |-> <<>>]

InitFixIdle ==
    /\ root = NoRoot /\ root0 = NoRoot /\ warnings = 0 /\ fixCalls = 0

InitSessionIdle ==
    /\ device_params = [name |-> "junos"]
    /\ listeners = {} /\ channel = 0 /\ channel_id = 0 /\ transport = <<>>
    /\ parsers = 0 /\ hook = "-" /\ ret = "-"

(***************************************************************************)
(* Dispatch of one raw reply that the engine could not parse.              *)
(***************************************************************************)
InitRaw ==
    /\ raw \in RawReplies(MaxPieces)
    /\ result = NoResult
    /\ InitFixIdle
    /\ InitSessionIdle

HandleRawDispatch ==
    /\ result = NoResult
    /\ result' = handle_raw_dispatch(raw)
    /\ UNCHANGED <<raw, fixVars, sessionVars, handlerVars>>

NextRaw == HandleRawDispatch

SpecRaw == InitRaw /\ [][NextRaw]_vars

(***************************************************************************)
(* Properties of the raw-dispatch hook.                                    *)
(***************************************************************************)
Dispatched == result # NoResult

\* the reply holds at least one <rpc-error>...</rpc-error> element
HasRpcError(s) ==
    \E i, j \in 1..Len(s) : i < j /\ s[i] = ERR_OPEN /\ s[j] = ERR_CLOSE

\* position k holds an <ok/> that follows a <routing-engine> opening tag
\* with no closing tag in between
UnclosedBeforeOk(s, k) ==
    /\ s[k] = OK
    /\ \E i \in 1..(k - 1) :
          /\ s[i] = RE_OPEN
          /\ \A j \in (i + 1)..(k - 1) : s[j] # RE_CLOSE

HasUnclosedRoutingEngine(s) == \E k \in 1..Len(s) : UnclosedBeforeOk(s, k)

\* s with the closing tag and a newline put in right before position k
ClosedBefore(s, k) ==
    SubSeq(s, 1, k - 1) \o <<RE_CLOSE, NL>> \o SubSeq(s, k, Len(s))

\* the fragments of s, by position: a closing tag ends a fragment when an
\* opening tag lies between the closing tag before it and itself, and the
\* fragment starts at the first such opening tag
PrevErrClose(s, j) ==
    LET before == { k \in 1..(j - 1) : s[k] = ERR_CLOSE }
    IN  IF before = {} THEN 0 ELSE CHOOSE k \in before : \A m \in before : m <= k

ErrOpensFor(s, j) == { i \in (PrevErrClose(s, j) + 1)..(j - 1) : s[i] = ERR_OPEN }

FragEnds(s) == { j \in 1..Len(s) : s[j] = ERR_CLOSE /\ ErrOpensFor(s, j) # {} }

NthFragment(s, n) ==
    LET ends == FragEnds(s)
        j    == CHOOSE e \in ends : Cardinality({ f \in ends : f < e }) = n - 1
        i    == CHOOSE o \in ErrOpensFor(s, j) : \A m \in ErrOpensFor(s, j) : o <= m
    IN  SubSeq(s, i, j)

FragmentCount(s) == Cardinality(FragEnds(s))

\* the reply takes the error-extraction path: the envelope shape, and not
\* the routing-engine shape
ErrorFragmentShape(s) == ~ContainsRoutingEngine(s) /\ SearchEnvelope(s)

\* C1: every raw reply that holds at least one <rpc-error> element makes
\* the hook yield an RPCError, whatever else the reply holds.
C1_FailClosed ==
    (Dispatched /\ HasRpcError(raw)) => result.kind = "RPCError"

\* C2: a raw reply with no unclosed routing-engine element to close and no
\* rpc-error fragment to extract makes the hook return False and nothing
\* else.
C2_NotApplicable ==
    (Dispatched /\ ~HasUnclosedRoutingEngine(raw) /\ ~HasRpcError(raw))
        => result = Returned("False", <<>>, <<>>, <<>>)

\* C3: a raw reply with an unclosed routing-engine element followed by
\* <ok/> comes back with exactly one closing tag (and newline) put in right
\* before that <ok/> and nothing else changed; a returned text whose
\* routing-engine element needs no closing gets no closing tag.
C3_RoutingEngineRepair ==
    Dispatched =>
        IF HasUnclosedRoutingEngine(raw)
        THEN \E k \in 1..Len(raw) :
                /\ UnclosedBeforeOk(raw, k)
                /\ result = Returned("str", ClosedBefore(raw, k), <<>>, <<>>)
        ELSE result.kind = "str" => result.text = raw

\* what C4 says of an RPCError built from the N fragments of s
ErrorsInOrder(s, r) ==
    LET n   == FragmentCount(s)
        all == <<RR_OPEN>> \o Join([m \in 1..n |-> NthFragment(s, m)]) \o <<RR_CLOSE>>
    IN  /\ r.kind = "RPCError"
        /\ Len(r.errs) = n
        /\ \A m \in 1..n :
              LET f == NthFragment(s, m)
              IN  /\ Len(r.errs[m]) = Len(f)
                  /\ \A p \in 1..Len(f) :
                        /\ r.errs[m][p].name = TokName(f[p])
                        /\ r.errs[m][p].kind = TokKind(f[p])
                        /\ r.errs[m][p].ns = BASE_NS_1_0
        /\ Len(r.raw) = Len(all)
        /\ \A p \in 1..Len(all) :
              /\ r.raw[p].name = TokName(all[p])
              /\ r.raw[p].kind = TokKind(all[p])
              /\ r.raw[p].ns = TokNs(all[p])

C9_TextWithError ==
    Dispatched =>
        /\ result.kind = "str" => (result.raw = <<>> /\ result.errs = <<>>)
        /\ result.kind = "RPCError" => result.text = raw

\* C9, amended: a call gives a repaired text or an error object, never
\* both; an error object is built only from a reply the routing-engine
\* repair does not apply to, so from unaltered text; and with the error
\* object no text comes back: the RPCError is all the hook returns.
C9_RepairOrError ==
    Dispatched =>
        /\ result.kind = "str" => (result.raw = <<>> /\ result.errs = <<>>)
        /\ result.kind = "RPCError" =>
              /\ result.text = <<>>
              /\ ~ContainsRoutingEngine(raw)
              /\ \A p \in 1..Len(result.raw) :
                    result.raw[p].name \notin {"routing-engine", "#text"}

C9_Witness ==
    /\ Dispatched
    /\ result.kind = "RPCError"
    /\ \E k \in 1..Len(raw) : raw[k] = OK

(***************************************************************************)
(* fix_get_schema_reply on the root of a parsed get-schema reply.  The     *)
(* root has a tag, a namespace and a sequence of child elements.           *)
(***************************************************************************)
Elem(tag, ns) == [tag |-> tag, ns |-> ns]

Namespaces == {BASE_NS_1_0, NETCONF_MONITORING_NS, JUNOS_NS, None}

ChildElems == { Elem(tag, ns) : tag \in {"data", "ok"}, ns \in Namespaces }

RECURSIVE ChildSeqs(_)
ChildSeqs(n) ==
    IF n = 0 THEN { <<>> }
    ELSE LET shorter == ChildSeqs(n - 1)
         IN  shorter \cup { Append(s, c) : s \in shorter, c \in ChildElems }

Replies ==
    { [tag |-> "rpc-reply", ns |-> ns, children |-> cs] :
          ns \in {BASE_NS_1_0, None}, cs \in ChildSeqs(MaxChildren) }

\* root.xpath('/nc:rpc-reply/*[local-name()="data"]', namespaces={'nc': BASE_NS_1_0}):
\* the positions of the matching children, in document order
RECURSIVE DataPositions(_, _)
DataPositions(cs, i) ==
    IF i > Len(cs) THEN <<>>
    ELSE IF cs[i].tag = "data"
         THEN <<i>> \o DataPositions(cs, i + 1)
         ELSE DataPositions(cs, i + 1)

xpath_data(r) ==
    IF r.tag = "rpc-reply" /\ r.ns = BASE_NS_1_0
    THEN DataPositions(r.children, 1)
    ELSE <<>>

\* replace_namespace(data_el, old_ns, new_ns) on the child at position d
replace_namespace(r, d, old_ns, new_ns) ==
    IF r.children[d].ns = old_ns
    THEN [r EXCEPT !.children[d].ns = new_ns]
    ELSE r

\* the root after the call, and the warnings the call logged
Fixed(r, w) == [root |-> r, warned |-> w]

\* a slip in the second branch: the base namespace in place of the
\* monitoring namespace
fix_get_schema_reply_base(r) ==
    LET data_elems == xpath_data(r)
    IN  IF Len(data_elems) # 1 THEN Fixed(r, 0)
        ELSE LET d == data_elems[1]
                 namespace == r.children[d].ns
             IN  IF namespace = BASE_NS_1_0
                 THEN Fixed(replace_namespace(r, d, BASE_NS_1_0, NETCONF_MONITORING_NS), 1)
                 ELSE IF namespace = None
                 THEN Fixed(replace_namespace(r, d, None, BASE_NS_1_0), 0)
                 ELSE Fixed(r, 0)

\* a slip in the second branch: the warning of the first branch repeated
fix_get_schema_reply_warn(r) ==
    LET data_elems == xpath_data(r)
    IN  IF Len(data_elems) # 1 THEN Fixed(r, 0)
        ELSE LET d == data_elems[1]
                 namespace == r.children[d].ns
             IN  IF namespace = BASE_NS_1_0
                 THEN Fixed(replace_namespace(r, d, BASE_NS_1_0, NETCONF_MONITORING_NS), 1)
                 ELSE IF namespace = None
                 THEN Fixed(replace_namespace(r, d, None, NETCONF_MONITORING_NS), 1)
                 ELSE Fixed(r, 0)

\* a slip in the guard: only an empty match is left alone
fix_get_schema_reply_first(r) ==
    LET data_elems == xpath_data(r)
    IN  IF Len(data_elems) = 0 THEN Fixed(r, 0)
        ELSE LET d == data_elems[1]
                 namespace == r.children[d].ns
             IN  IF namespace = BASE_NS_1_0
                 THEN Fixed(replace_namespace(r, d, BASE_NS_1_0, NETCONF_MONITORING_NS), 1)
                 ELSE IF namespace = None
                 THEN Fixed(replace_namespace(r, d, None, NETCONF_MONITORING_NS), 0)
                 ELSE Fixed(r, 0)

fix_get_schema_reply(r) ==
    LET data_elems == xpath_data(r)
    IN  IF Len(data_elems) # 1 THEN Fixed(r, 0)
        ELSE LET d == data_elems[1]
                 namespace == r.children[d].ns
             IN  IF namespace = BASE_NS_1_0
                 THEN Fixed(replace_namespace(r, d, BASE_NS_1_0, NETCONF_MONITORING_NS), 1)
                 ELSE IF namespace = None
                 THEN Fixed(replace_namespace(r, d, None, NETCONF_MONITORING_NS), 0)
                 ELSE Fixed(r, 0)

InitRawIdle == raw = <<>> /\ result = NoResult

InitFix ==
    /\ root \in Replies
    /\ root0 = root
    /\ warnings = 0
    /\ fixCalls = 0
    /\ InitRawIdle
    /\ InitSessionIdle

FixGetSchemaReply ==
    /\ fixCalls < MaxFixCalls
    /\ LET fixed == fix_get_schema_reply(root)
       IN  /\ root' = fixed.root
           /\ warnings' = warnings + fixed.warned
    /\ fixCalls' = fixCalls + 1
    /\ UNCHANGED <<root0, rawVars, sessionVars, handlerVars>>

NextFix == FixGetSchemaReply

SpecFix == InitFix /\ [][NextFix]_vars

(***************************************************************************)
(* Properties of fix_get_schema_reply.                                     *)
(***************************************************************************)
\* the data elements under the rpc-reply element of the base namespace
DataUnderReply(r) ==
    IF r.tag = "rpc-reply" /\ r.ns = BASE_NS_1_0
    THEN { i \in 1..Len(r.children) : r.children[i].tag = "data" }
    ELSE {}

TheData(r) == CHOOSE i \in DataUnderReply(r) : TRUE

FixCalled == fixCalls' = fixCalls + 1

\* C5: fix_get_schema_reply is idempotent: a call on a reply that has gone
\* through the fixer already leaves it as it is.
C5_Idempotent ==
    [][(FixCalled /\ fixCalls >= 1) => root' = root]_vars

C5_Witness == fixCalls = 2 /\ root # root0

\* C6: with exactly one data element under rpc-reply, a call rewrites a
\* base-namespace data element to the monitoring namespace with exactly
\* one warning, and a data element without namespace to the monitoring
\* namespace with no warning; in every other case it logs no warning.
C6_RewriteAndWarn ==
    [][FixCalled =>
          IF Cardinality(DataUnderReply(root)) = 1
          THEN LET d == TheData(root)
                   ns == root.children[d].ns
               IN  CASE ns = BASE_NS_1_0 ->
                          /\ root'.children[d] = Elem("data", NETCONF_MONITORING_NS)
                          /\ warnings' = warnings + 1
                     [] ns = None ->
                          /\ root'.children[d] = Elem("data", NETCONF_MONITORING_NS)
                          /\ warnings' = warnings
                     [] OTHER -> warnings' = warnings
          ELSE warnings' = warnings]_vars

C6_Witness ==
    /\ fixCalls = 1
    /\ warnings = 1
    /\ Cardinality(DataUnderReply(root0)) = 1
    /\ root0.children[TheData(root0)].ns = BASE_NS_1_0
    /\ root.children[TheData(root0)].ns = NETCONF_MONITORING_NS

\* C7: with no data element under rpc-reply, with more than one, or with a
\* single data element whose namespace is neither the base namespace nor
\* absent, a call changes nothing in the document.
C7_Unchanged ==
    [][(/\ FixCalled
        /\ \/ Cardinality(DataUnderReply(root)) # 1
           \/ root.children[TheData(root)].ns \notin {BASE_NS_1_0, None})
          => root' = root]_vars

C7_Witness ==
    /\ fixCalls >= 1
    /\ Cardinality(DataUnderReply(root0)) = 2
    /\ \E i \in DataUnderReply(root0) : root0.children[i].ns \in {BASE_NS_1_0, None}
    /\ root = root0

(***************************************************************************)
(* The session and the hooks of the handler bound to it.  A listener has   *)
(* an identity and a class; the engine's own listeners have identity 0,    *)
(* the i-th SAXParserHandler the handler creates has identity i.  The      *)
(* transport is the sequence of the channels opened on it, and the         *)
(* session's _channel is a position in that sequence.                      *)
(***************************************************************************)
Listener(id, cls) == [id |-> id, cls |-> cls]

EngineListeners == { Listener(0, "HelloHandler"), Listener(0, "RPCReplyListener") }

DeviceParams ==
    { [name |-> "junos"],
      [name |-> "junos", use_filter |-> TRUE],
      [name |-> "junos", use_filter |-> FALSE],
      [name |-> "h3c"] }

\* self.device_params.get('use_filter', False)
UseFilter(dp) == IF "use_filter" \in DOMAIN dp THEN dp.use_filter ELSE FALSE

\* session.get_listener_instance(cls): the listeners it may return; None
\* when there is none
get_listener_instance(ls, cls) == { l \in ls : l.cls = cls }

\* session.remove_listener(l): discards l
remove_listener(ls, l) == ls \ {l}

\* session.add_listener(l)
add_listener(ls, l) == ls \cup {l}

ParserChoice(ls, parser) == [listeners |-> ls, ret |-> parser]

\* a slip: the listener found is not removed before the new one is added
get_xml_parser_keep(dp, ls, fresh) ==
    IF ~UseFilter(dp)
    THEN { ParserChoice(ls, "DefaultXMLParser") }
    ELSE { ParserChoice(add_listener(ls, Listener(fresh, "SAXParserHandler")),
                        "JunosXMLParser") }

\* the outcomes of get_xml_parser(session) on a session with listeners ls,
\* one for each listener get_listener_instance may return
get_xml_parser(dp, ls, fresh) ==
    IF ~UseFilter(dp)
    THEN { ParserChoice(ls, "DefaultXMLParser") }
    ELSE LET found == get_listener_instance(ls, "SAXParserHandler")
             kept  == IF found = {} THEN { ls }
                      ELSE { remove_listener(ls, l) : l \in found }
         IN  { ParserChoice(add_listener(k, Listener(fresh, "SAXParserHandler")),
                            "JunosXMLParser") : k \in kept }

\* sshsession._transport.open_channel(kind="session"), c.set_name(...),
\* c.exec_command(...): the transport with the new channel
CommandChannel(tr, cid) ==
    Append(tr, [kind    |-> "session",
                name    |-> "netconf-command-" \o ToString(cid),
                command |-> "xml-mode netconf need-trailer"])

Connected(ch, tr, r) == [channel |-> ch, transport |-> tr, ret |-> r]

\* a slip: the channel is opened but not assigned to the session
handle_connection_exceptions_local(ch, cid, tr) ==
    Connected(ch, CommandChannel(tr, cid), "True")

handle_connection_exceptions(ch, cid, tr) ==
    Connected(Len(tr) + 1, CommandChannel(tr, cid), "True")

\* self.__reply_parsing_error_transform_by_cls.get(reply_cls)
reply_parsing_error_transform(reply_cls) ==
    IF reply_cls = "GetSchemaReply" THEN "fix_get_schema_reply" ELSE "None"

JunosOperations ==
    { "rpc", "get_configuration", "load_configuration", "compare_configuration",
      "command", "reboot", "halt", "commit", "rollback" }

H3cOperations ==
    { "get_bulk", "get_bulk_config", "cli", "action", "save", "load", "rollback" }

\* H3cDeviceHandler.get_xml_base_namespace_dict: {None: BASE_NS_1_0}
get_xml_base_namespace_dict == [prefix \in {None} |-> BASE_NS_1_0]

\* H3cDeviceHandler.get_xml_extra_prefix_kwargs: {"nsmap": d}
get_xml_extra_prefix_kwargs == [nsmap |-> get_xml_base_namespace_dict]

SampleReplies ==
    { <<RE_OPEN, OK>>,
      <<RR_OPEN, RR_CLOSE, ERR_OPEN, ERR_TAG, ERR_CLOSE, HELLO_CLOSE>>,
      <<RR_OPEN, RR_CLOSE, HELLO_CLOSE>>,
      <<OK>> }

\* the session once its first channel is set up, before any hook is called
InitSession ==
    /\ device_params \in DeviceParams
    /\ listeners \in SUBSET EngineListeners
    /\ transport = <<[kind |-> "session", name |-> "netconf-subsystem-1",
                      command |-> "netconf"]>>
    /\ channel = 1
    /\ channel_id = 1
    /\ parsers = 0
    /\ hook = "-"
    /\ ret = "-"
    /\ InitRawIdle
    /\ InitFixIdle

IsJunos == device_params.name = "junos"
IsH3c   == device_params.name = "h3c"

\* a hook that only returns a value
Returns(name, value) ==
    /\ hook' = name
    /\ ret' = value
    /\ UNCHANGED <<sessionVars, device_params, parsers, rawVars, fixVars>>

GetXmlParser ==
    /\ IsJunos
    /\ parsers < MaxParserCalls
    /\ \E choice \in get_xml_parser(device_params, listeners, parsers + 1) :
          /\ listeners' = choice.listeners
          /\ ret' = choice.ret
    /\ parsers' = parsers + 1
    /\ hook' = "get_xml_parser"
    /\ UNCHANGED <<channel, channel_id, transport, device_params, rawVars, fixVars>>

HandleConnectionExceptions ==
    /\ IsJunos
    /\ Len(transport) < MaxChannels
    /\ LET c == handle_connection_exceptions(channel, channel_id, transport)
       IN  /\ channel' = c.channel
           /\ transport' = c.transport
           /\ ret' = c.ret
    /\ hook' = "handle_connection_exceptions"
    /\ UNCHANGED <<listeners, channel_id, device_params, parsers, rawVars, fixVars>>

JunosHandleRawDispatch ==
    /\ IsJunos
    /\ \E r \in SampleReplies :
          /\ raw' = r
          /\ result' = handle_raw_dispatch(r)
          /\ ret' = handle_raw_dispatch(r).kind
    /\ hook' = "handle_raw_dispatch"
    /\ UNCHANGED <<sessionVars, device_params, parsers, fixVars>>

JunosReplyParsingErrorTransform ==
    /\ IsJunos
    /\ \E reply_cls \in {"GetSchemaReply", "GetReply"} :
          Returns("reply_parsing_error_transform", reply_parsing_error_transform(reply_cls))

JunosAddAdditionalOperations ==
    IsJunos /\ Returns("add_additional_operations", ToString(Cardinality(JunosOperations)))

JunosPerformQualifyCheck ==
    IsJunos /\ Returns("perform_qualify_check", "False")

JunosTransformReply ==
    IsJunos /\ Returns("transform_reply", "xsl:stylesheet")

H3cAddAdditionalOperations ==
    IsH3c /\ Returns("add_additional_operations", ToString(Cardinality(H3cOperations)))

H3cGetXmlBaseNamespaceDict ==
    IsH3c /\ Returns("get_xml_base_namespace_dict", get_xml_base_namespace_dict[None])

H3cGetXmlExtraPrefixKwargs ==
    IsH3c /\ Returns("get_xml_extra_prefix_kwargs", get_xml_extra_prefix_kwargs.nsmap[None])

H3cPerformQualifyCheck ==
    IsH3c /\ Returns("perform_qualify_check", "False")

NextSession ==
    \/ GetXmlParser
    \/ HandleConnectionExceptions
    \/ JunosHandleRawDispatch
    \/ JunosReplyParsingErrorTransform
    \/ JunosAddAdditionalOperations
    \/ JunosPerformQualifyCheck
    \/ JunosTransformReply
    \/ H3cAddAdditionalOperations
    \/ H3cGetXmlBaseNamespaceDict
    \/ H3cGetXmlExtraPrefixKwargs
    \/ H3cPerformQualifyCheck

SpecSession == InitSession /\ [][NextSession]_vars

(***************************************************************************)
(* Properties of the hooks on the session.                                 *)
(***************************************************************************)
SaxListeners(ls) == { l \in ls : l.cls = "SAXParserHandler" }

OtherListeners(ls) == ls \ SaxListeners(ls)

\* C8: on a session that starts without a SAXParserHandler listener, after
\* one or more get_xml_parser calls the session holds exactly one such
\* listener when use_filter is true and none when it is false or absent;
\* no step adds or removes a listener of another class.
C8_OneSaxListener ==
    /\ [](parsers >= 1 =>
            Cardinality(SaxListeners(listeners)) = IF UseFilter(device_params) THEN 1 ELSE 0)
    /\ [][OtherListeners(listeners') = OtherListeners(listeners)]_vars

C8_Witness ==
    /\ parsers = MaxParserCalls
    /\ UseFilter(device_params)
    /\ Cardinality(SaxListeners(listeners)) = 1
    /\ OtherListeners(listeners) # {}

====
